---------------------------- MODULE Spec2Model ----------------------------
(***************************************************************************)
(* The dependency-aware execution engine of agentops:                      *)
(* AgentOrchestrator.coordinate, decompose_task, get_ready_tasks and       *)
(* execute_task (src/agentops/orchestrator/agent_orchestrator.py), and     *)
(* LLMTaskDecomposer.decompose (.../llm_decomposer.py).                    *)
(*                                                                         *)
(* One orchestrator runs on one asyncio event loop.  An action of this     *)
(* module is the code a coroutine runs between two suspension points       *)
(* (await asyncio.gather, await agent.execute, await asyncio.sleep).       *)
(* A subtask is named by its position in the subtask list; its task_id is  *)
(* a field, looked up as get_ready_tasks looks it up.  Task identifiers    *)
(* are numbers (k stands for "task-k"), timestamps are "set" or "None",    *)
(* a worker's output is the opaque value "output", an error text is the    *)
(* tuple of its parts (the empty tuple for None).                          *)
(*                                                                         *)
(* A task text is the set of its words; the reply of the LLM is one of     *)
(* the outcomes the decomposer tells apart.                                *)
(*                                                                         *)
(* Spec explores the runs over the subtask lists an LLM decomposer may     *)
(* return; DecomposeSpec explores decompose_task over every text,          *)
(* registry and outcome of the LLM call, with short lists; MemorySpec      *)
(* explores runs with and without a memory sink; HistorySpec explores      *)
(* several calls of coordinate, one after the other.                       *)
(*                                                                         *)
(* What the model takes from the environment: the identifiers of a list    *)
(* are distinct; workers are registered while no call of coordinate is     *)
(* under way; a call of a worker returns a result or raises an Exception;  *)
(* the memory sink (HierarchicalMemory, an external package) is a log of   *)
(* what was written to it, and its store and store_fact return; the        *)
(* conversion of a worker's result to text does not raise.                 *)
(***************************************************************************)
EXTENDS Naturals, Sequences, FiniteSets

VARIABLES
    agents,             \* self.agents: worker type -> the registered worker
    subtasks,           \* the run's list of AgentTask records
    pc,                 \* where coordinate is: idle, loop, gather, done,
                        \* or raised (an exception left coordinate)
    iteration,          \* coordinate's iteration counter
    ready_tasks,        \* the batch handed to asyncio.gather (list positions)
    epc,                \* where each execute_task coroutine is
    invocations,        \* calls of agent.execute made for each subtask
    batches,            \* the batches dispatched so far, in order
    stalled,            \* the stall warning of line 268 was printed
    execution_history,  \* self.execution_history
    returned,           \* what coordinate returned to its caller, if it did
    agent_keys,         \* list(self.agents.keys()): the types, as registered
    decomposer,         \* self.decomposer, "None" when there is none
    complex_task,       \* the task text coordinate was called with
    llm_outcome,        \* how the call of the LLM decomposer went
    finished,           \* the subtasks in the order they became completed
    memory,             \* self.memory, "None" when no sink is attached
    stored,             \* what was written to the memory sink, in order
    calls               \* the calls of coordinate made so far

vars == <<agents, subtasks, pc, iteration, ready_tasks, epc, invocations,
          batches, stalled, execution_history, returned, agent_keys,
          decomposer, complex_task, llm_outcome, finished, memory, stored,
          calls>>

\* What no step of a run changes.
setup == <<agent_keys, decomposer, complex_task, llm_outcome, memory, calls>>

----------------------------------------------------------------------------
(* Bounds and program constants *)

\* Longest subtask list drawn from the full family of dependency graphs.
MaxTasks == 2

\* Most calls of coordinate made on one orchestrator.
MaxRuns == 2

\* AgentTask.max_retries
DefaultMaxRetries == 2

\* coordinate's max_iterations
max_iterations == 50

\* An identifier no subtask carries (larger than any in use): a prerequisite
\* that resolves to nothing.
UnknownId == max_iterations + 2

\* The workers that get registered, by type.  A "MockSmartAgent" returns a
\* result on every call (the mock of the test scripts); an "Agent" is any
\* other worker: each call of its execute may return or raise.
Workers == [calculator |-> "Agent", worker |-> "MockSmartAgent"]
AgentTypes == DOMAIN Workers

\* The types a subtask may be assigned.  "general" is the sentinel type of
\* the decomposers; nothing registers it here.
TaskTypes == {"calculator", "general"}
LongTaskTypes == {"worker", "general"}

Range(s) == { s[k] : k \in 1..Len(s) }

----------------------------------------------------------------------------
(* AgentTask *)

NewTask(id, type, deps) ==
    [task_id |-> id, agent_type |-> type, dependencies |-> deps,
     status |-> "pending", result |-> "None", error |-> << >>,
     assigned_agent |-> "None", started_at |-> "None",
     completed_at |-> "None", retry_count |-> 0,
     max_retries |-> DefaultMaxRetries]

----------------------------------------------------------------------------
(* The subtask lists a run may be given *)

\* Every list of n subtasks with identifiers 1..n, any assigned type and any
\* prerequisite set over 1..n and the unknown identifier (self-loops, cycles
\* and dangling prerequisites included).
ListsOfLen(n) ==
    { [k \in 1..n |-> NewTask(k, f[k][1], f[k][2])] :
        f \in [1..n -> TaskTypes \X SUBSET ((1..n) \cup {UnknownId})] }

GeneralLists == UNION { ListsOfLen(n) : n \in 0..MaxTasks }

\* The diamond of test_complex_dependencies: A, B (needs A), C (needs A),
\* D (needs B and C).
DiamondDeps == <<{}, {1}, {1}, {2, 3}>>
DiamondLists ==
    { [k \in 1..4 |-> NewTask(k, ty[k], DiamondDeps[k])] :
        ty \in [1..4 -> TaskTypes] }

\* A chain 1 <- 2 <- ... <- n, all of one type.
Chain(n, type) ==
    [k \in 1..n |-> NewTask(k, type, IF k = 1 THEN {} ELSE {k - 1})]

\* Chains that need more iterations than the cap allows: one longer than the
\* cap, and one as long as the cap followed by a subtask whose prerequisite
\* is unknown.
LongLists ==
    { Chain(max_iterations + 1, ty) : ty \in LongTaskTypes } \cup
    { Append(Chain(max_iterations, ty),
             NewTask(max_iterations + 1, ty, {UnknownId})) :
        ty \in LongTaskTypes }

SubtaskLists == GeneralLists \cup DiamondLists \cup LongLists

----------------------------------------------------------------------------
(* get_ready_tasks *)

Min(S) == CHOOSE x \in S : \A y \in S : x <= y

\* next((t for t in tasks if t.task_id == dep_id), None): the position of the
\* first subtask with that identifier, 0 for None.
FindTask(tasks, dep_id) ==
    LET hits == { j \in 1..Len(tasks) : tasks[j].task_id = dep_id }
    IN  IF hits = {} THEN 0 ELSE Min(hits)

\* A scheduler that takes any finished prerequisite, failed ones too, as met.
DepsMetAnyTerminal(tasks, t) ==
    \A dep_id \in t.dependencies :
        LET j == FindTask(tasks, dep_id)
        IN  j # 0 /\ tasks[j].status \in {"completed", "failed"}

\* A scheduler that skips a prerequisite it cannot find.
DepsMetSkipsUnknown(tasks, t) ==
    \A dep_id \in t.dependencies :
        LET j == FindTask(tasks, dep_id)
        IN  j = 0 \/ tasks[j].status = "completed"

\* deps_met after the inner loop of get_ready_tasks.
DepsMet(tasks, t) ==
    \A dep_id \in t.dependencies :
        LET j == FindTask(tasks, dep_id)
        IN  j # 0 /\ tasks[j].status = "completed"

RECURSIVE ReadyFrom(_, _)
ReadyFrom(tasks, k) ==
    IF k > Len(tasks) THEN << >>
    ELSE (IF tasks[k].status = "pending" /\ DepsMet(tasks, tasks[k])
          THEN <<k>> ELSE << >>) \o ReadyFrom(tasks, k + 1)

\* A scheduler that hands a failed subtask out again.
RECURSIVE ReadyOrFailedFrom(_, _)
ReadyOrFailedFrom(tasks, k) ==
    IF k > Len(tasks) THEN << >>
    ELSE (IF tasks[k].status \in {"pending", "failed"}
             /\ DepsMet(tasks, tasks[k])
          THEN <<k>> ELSE << >>) \o ReadyOrFailedFrom(tasks, k + 1)

ReadyRerunsFailed(tasks) == ReadyOrFailedFrom(tasks, 1)

\* A scheduler that hands out one ready subtask at a time.
ReadyFirstOnly(tasks) ==
    IF ReadyFrom(tasks, 1) = << >> THEN << >> ELSE <<Head(ReadyFrom(tasks, 1))>>

\* A scheduler that collects the ready subtasks back to front.
RECURSIVE ReadyBackwards(_, _)
ReadyBackwards(tasks, k) ==
    IF k = 0 THEN << >>
    ELSE (IF tasks[k].status = "pending" /\ DepsMet(tasks, tasks[k])
          THEN <<k>> ELSE << >>) \o ReadyBackwards(tasks, k - 1)

ReadyReversed(tasks) == ReadyBackwards(tasks, Len(tasks))

get_ready_tasks(tasks) == ReadyFrom(tasks, 1)

----------------------------------------------------------------------------
(* decompose_task *)

\* A task text is the set of the words in it.
Vocabulary == {"Research", "find", "analyze", "Report", "write", "add"}
Texts == SUBSET Vocabulary

\* A task text without any marker of the keyword decomposition.
PlainTask == {"add"}

\* str.lower, on a word.
Lower(word) ==
    CASE word = "Research" -> "research"
      [] word = "Report" -> "report"
      [] OTHER -> word

\* marker in task.lower()
Contains(task, marker) == marker \in { Lower(word) : word \in task }

\* type if type in agents else agents[0]; of an empty list agents[0] raises
\* IndexError, written here as the type of the subtask being built.
TypeOrFirst(type, keys) ==
    IF type \in Range(keys) THEN type
    ELSE IF keys # << >> THEN keys[1] ELSE "IndexError"

\* A decomposition that makes every later subtask depend on the first one.
FirstId(tasks) == IF tasks # << >> THEN {tasks[1].task_id} ELSE {}

\* [subtasks[-1].task_id] if subtasks else []
LastId(tasks) == IF tasks # << >> THEN {tasks[Len(tasks)].task_id} ELSE {}

\* The list _fallback_decompose builds, block after block.
FallbackSteps(task, keys) ==
    LET s1 == IF Contains(task, "research") \/ Contains(task, "find")
              THEN <<NewTask(1, TypeOrFirst("research", keys), {})>>
              ELSE << >>
        s2 == IF Contains(task, "analyze")
              THEN Append(s1, NewTask(Len(s1) + 1,
                                      TypeOrFirst("analysis", keys), LastId(s1)))
              ELSE s1
        s3 == IF Contains(task, "write") \/ Contains(task, "report")
              THEN Append(s2, NewTask(Len(s2) + 1,
                                      TypeOrFirst("writing", keys), LastId(s2)))
              ELSE s2
    IN  IF s3 = << >>
        THEN <<NewTask(1, IF keys # << >> THEN keys[1] ELSE "general", {})>>
        ELSE s3

\* _fallback_decompose: the list it returns, unless it raised.
fallback_decompose(task, keys) ==
    LET s == FallbackSteps(task, keys)
    IN  IF \E k \in 1..Len(s) : s[k].agent_type = "IndexError"
        THEN [raised |-> TRUE, tasks |-> << >>]
        ELSE [raised |-> FALSE, tasks |-> s]

\* What the call of the LLM may come to: the call fails, the reply is no
\* JSON, the reply is JSON of another shape than a list of subtask
\* dictionaries, or the reply is a list of subtask dictionaries.
Replies(lists) ==
    { [kind |-> kd, tasks |-> << >>] :
        kd \in {"call_failed", "not_json", "wrong_shape"} } \cup
    { [kind |-> "subtasks", tasks |-> tasks] : tasks \in lists }

\* LLMTaskDecomposer._fallback_decompose
SingleTask(keys) ==
    <<NewTask(1, IF keys # << >> THEN keys[1] ELSE "general", {})>>

\* LLMTaskDecomposer.decompose, and whether decompose_task can build
\* AgentTasks from what it returns.
LLMDecompose(keys, reply) ==
    IF reply.kind \in {"call_failed", "not_json"}
    THEN [built |-> TRUE, tasks |-> SingleTask(keys)]
    ELSE IF reply.kind = "wrong_shape"
         THEN [built |-> FALSE, tasks |-> << >>]
         ELSE [built |-> TRUE, tasks |-> reply.tasks]

decompose_task(task, reply) ==
    IF decomposer # "None"
    THEN LET d == LLMDecompose(agent_keys, reply)
         IN  IF d.built THEN [raised |-> FALSE, tasks |-> d.tasks]
             ELSE fallback_decompose(task, agent_keys)
    ELSE fallback_decompose(task, agent_keys)

----------------------------------------------------------------------------
(* coordinate *)

AnyPending(tasks) == \E k \in 1..Len(tasks) : tasks[k].status = "pending"

\* A loop without the iteration cap.
LoopIgnoresCap == AnyPending(subtasks)

\* The while condition of the coordination loop.
LoopContinues == AnyPending(subtasks) /\ iteration < max_iterations

RECURSIVE SelectStatus(_, _, _)
SelectStatus(tasks, st, k) ==
    IF k > Len(tasks) THEN << >>
    ELSE (IF tasks[k].status = st THEN <<k>> ELSE << >>)
         \o SelectStatus(tasks, st, k + 1)

\* One entry of final_output: "task_id (agent_type):\nresult".
OutputEntry(t) == <<t.task_id, t.agent_type, t.result>>

\* An aggregation that writes the outputs in the order of completion.
AggregateInCompletionOrder(tasks) ==
    LET completed == SelectStatus(tasks, "completed", 1)
        failed == SelectStatus(tasks, "failed", 1)
    IN  [subtasks |-> tasks,
         total_subtasks |-> Len(tasks),
         completed |-> Len(completed),
         failed |-> Len(failed),
         success |-> (Len(completed) = Len(tasks)),
         final_output |-> [k \in 1..Len(finished) |->
                             OutputEntry(tasks[finished[k]])]]

\* An aggregation that takes a run without failed subtasks for a success.
AggregateSuccessIfNoneFailed(tasks) ==
    LET completed == SelectStatus(tasks, "completed", 1)
        failed == SelectStatus(tasks, "failed", 1)
    IN  [subtasks |-> tasks,
         total_subtasks |-> Len(tasks),
         completed |-> Len(completed),
         failed |-> Len(failed),
         success |-> (Len(failed) = 0),
         final_output |-> [k \in 1..Len(completed) |->
                             OutputEntry(tasks[completed[k]])]]

\* The result dictionary built after the loop.
Aggregate(tasks) ==
    LET completed == SelectStatus(tasks, "completed", 1)
        failed == SelectStatus(tasks, "failed", 1)
    IN  [subtasks |-> tasks,
         total_subtasks |-> Len(tasks),
         completed |-> Len(completed),
         failed |-> Len(failed),
         success |-> (Len(completed) = Len(tasks)),
         final_output |-> [k \in 1..Len(completed) |->
                             OutputEntry(tasks[completed[k]])]]

\* AgentOrchestrator.__init__, but for the decomposer.
Constructed ==
    /\ agents = [type \in {} |-> "None"]
    /\ subtasks = << >>
    /\ pc = "idle"
    /\ iteration = 0
    /\ ready_tasks = << >>
    /\ epc = << >>
    /\ invocations = << >>
    /\ batches = << >>
    /\ stalled = FALSE
    /\ execution_history = << >>
    /\ returned = << >>
    /\ agent_keys = << >>
    /\ complex_task = {}
    /\ llm_outcome = "None"
    /\ finished = << >>
    /\ stored = << >>
    /\ calls = 0

\* An orchestrator constructed with an API key and no memory: it has an
\* LLM decomposer and no sink.
Init ==
    /\ Constructed
    /\ decomposer = "LLMTaskDecomposer"
    /\ memory = "None"

\* One write to the memory sink: its key, and the worker type or the
\* subtask the key names.
SinkEntry(key, type, id) == [key |-> key, type |-> type, task_id |-> id]

\* if self.memory: self.memory.store(...), once for each of the entries.
Store(entries) ==
    stored' = IF memory # "None" THEN stored \o entries ELSE stored

\* register_agent but for its write to the sink.
RegisterAgentControl(type, agent_instance) ==
    /\ pc = "idle"
    /\ type \notin DOMAIN agents
    /\ agents' = [ty \in DOMAIN agents \cup {type} |->
                    IF ty = type THEN agent_instance ELSE agents[ty]]
    /\ agent_keys' = Append(agent_keys, type)
    /\ UNCHANGED <<subtasks, pc, iteration, ready_tasks, epc, invocations,
                   batches, stalled, execution_history, returned,
                   decomposer, complex_task, llm_outcome, finished, memory,
                   calls>>

\* register_agent, called before the run starts.
RegisterAgent(type, agent_instance) ==
    /\ RegisterAgentControl(type, agent_instance)
    /\ Store(<<SinkEntry("agent_registered", type, 0)>>)

\* coordinate from the subtask list the decomposition handed back up to
\* the loop.
Coordinate(tasks) ==
    /\ pc = "idle"
    /\ subtasks' = tasks
    /\ iteration' = 0
    /\ epc' = [k \in 1..Len(tasks) |-> "none"]
    /\ invocations' = [k \in 1..Len(tasks) |-> 0]
    /\ pc' = "loop"
    /\ UNCHANGED <<finished, agents, agent_keys, decomposer, memory,
                   ready_tasks, batches, stalled, execution_history, returned>>

\* coordinate, from its call to the loop, or to the exception that leaves
\* it when the decomposition raised, but for its writes to the sink.
CoordinateTaskControl(task, reply) ==
    LET d == decompose_task(task, reply)
    IN  /\ pc = "idle"
        /\ complex_task' = task
        /\ llm_outcome' = IF decomposer # "None" THEN reply.kind
                                                  ELSE "not_called"
        /\ calls' = calls + 1
        /\ IF d.raised
           THEN /\ pc' = "raised"
                /\ UNCHANGED <<agents, agent_keys, decomposer, memory,
                               subtasks, iteration, ready_tasks, epc,
                               invocations, batches, stalled,
                               execution_history, returned, finished>>
           ELSE Coordinate(d.tasks)

\* coordinate, from its call to the loop, or to the exception that leaves
\* it when the decomposition raised.
CoordinateTask(task, reply) ==
    /\ CoordinateTaskControl(task, reply)
    /\ IF decompose_task(task, reply).raised
       THEN UNCHANGED stored
       ELSE Store(<<SinkEntry("orchestration_task", "None", 0),
                    SinkEntry("subtasks", "None", 0)>>)

\* A history that keeps the result of the last run only.
FinishKeepsLastResult(warn) ==
    LET result == Aggregate(subtasks)
    IN  /\ execution_history' = <<result>>
        /\ returned' = <<result>>
        /\ stalled' = warn
        /\ pc' = "done"
        /\ UNCHANGED <<setup, finished, agents, subtasks, ready_tasks, epc,
                       invocations, batches>>

\* The aggregation after the loop, the append to the history and the
\* return, but for the write to the sink.
FinishControl(warn) ==
    LET result == Aggregate(subtasks)
    IN  /\ execution_history' = Append(execution_history, result)
        /\ returned' = <<result>>
        /\ stalled' = warn
        /\ pc' = "done"
        /\ UNCHANGED <<setup, finished, agents, subtasks, ready_tasks, epc,
                       invocations, batches>>

\* A fact stored for every run that ended.
StoreFactAlways == Store(<<SinkEntry("fact", "None", 0)>>)

\* if self.memory and success: self.memory.store_fact(...)
StoreFact ==
    IF Aggregate(subtasks).success
    THEN Store(<<SinkEntry("fact", "None", 0)>>)
    ELSE UNCHANGED stored

\* The aggregation after the loop, the append to the history, the fact
\* stored for a successful run and the return.
Finish(warn) == FinishControl(warn) /\ StoreFact

\* One pass of the loop with a non-empty ready set: up to await gather.
Dispatch ==
    /\ pc = "loop"
    /\ LoopContinues
    /\ get_ready_tasks(subtasks) # << >>
    /\ iteration' = iteration + 1
    /\ ready_tasks' = get_ready_tasks(subtasks)
    /\ epc' = [k \in 1..Len(subtasks) |->
                 IF k \in Range(ready_tasks') THEN "scheduled" ELSE epc[k]]
    /\ batches' = Append(batches, ready_tasks')
    /\ pc' = "gather"
    /\ UNCHANGED <<setup, stored, finished, agents,
                   subtasks, invocations, stalled,
                   execution_history, returned>>

\* A loop that goes on to its next pass when nothing is ready.
StallSpins ==
    /\ pc = "loop"
    /\ LoopContinues
    /\ get_ready_tasks(subtasks) = << >>
    /\ iteration' = iteration + 1
    /\ UNCHANGED <<setup, stored, finished, agents,
                   subtasks, pc, ready_tasks, epc,
                   invocations, batches, stalled, execution_history, returned>>

\* The pass of the loop with an empty ready set, but for the write to the
\* sink.
StallControl ==
    /\ pc = "loop"
    /\ LoopContinues
    /\ get_ready_tasks(subtasks) = << >>
    /\ iteration' = iteration + 1
    /\ FinishControl(AnyPending(subtasks))

\* One pass of the loop with an empty ready set: the warning, break, and the
\* code after the loop.
Stall ==
    /\ pc = "loop"
    /\ LoopContinues
    /\ get_ready_tasks(subtasks) = << >>
    /\ iteration' = iteration + 1
    /\ Finish(AnyPending(subtasks))

\* The exit of the loop, but for the write to the sink.
LoopExitControl ==
    /\ pc = "loop"
    /\ ~LoopContinues
    /\ UNCHANGED iteration
    /\ FinishControl(stalled)

\* The while condition is false: the code after the loop.
LoopExit ==
    /\ pc = "loop"
    /\ ~LoopContinues
    /\ UNCHANGED iteration
    /\ Finish(stalled)

\* A gather that completes as soon as one execute_task of the batch
\* returned.
GatherDoneEarly ==
    /\ pc = "gather"
    /\ \E k \in Range(ready_tasks) : epc[k] = "returned"
    /\ pc' = "loop"
    /\ epc' = [k \in 1..Len(subtasks) |-> "none"]
    /\ UNCHANGED <<setup, stored, finished, agents,
                   subtasks, iteration, ready_tasks,
                   invocations, batches, stalled, execution_history, returned>>

\* asyncio.gather completes once every execute_task of the batch returned.
GatherDone ==
    /\ pc = "gather"
    /\ \A k \in Range(ready_tasks) : epc[k] = "returned"
    /\ pc' = "loop"
    /\ epc' = [k \in 1..Len(subtasks) |-> "none"]
    /\ UNCHANGED <<setup, stored, finished, agents,
                   subtasks, iteration, ready_tasks,
                   invocations, batches, stalled, execution_history, returned>>

----------------------------------------------------------------------------
(* execute_task *)

\* self.agents.get(task.agent_type) found a worker.
HasAgent(t) == t.agent_type \in DOMAIN agents

\* A retry loop that stops one attempt early.
RetryLoopStopsEarly(t) == t.retry_count < t.max_retries

\* A retry loop that allows one attempt too many.
RetryLoopOneMore(t) == t.retry_count <= t.max_retries + 1

\* The condition of the retry loop.
RetryLoopContinues(t) == t.retry_count <= t.max_retries

\* The check made after a failed attempt.
RetriesExhausted(t) == t.retry_count > t.max_retries

\* asyncio starts the coroutines of a gather in the order they were passed.
MayStart(k) ==
    /\ pc = "gather"
    /\ epc[k] = "scheduled"
    /\ \E p \in 1..Len(ready_tasks) :
          /\ ready_tasks[p] = k
          /\ \A q \in 1..(p - 1) : epc[ready_tasks[q]] # "scheduled"

\* A missing worker counted as a failed attempt.
NoAgentFailCounted(t) ==
    [t EXCEPT !.status = "failed", !.retry_count = @ + 1,
              !.error = <<"No agent registered for type", t.agent_type>>]

\* execute_task when no worker is registered for the type.
NoAgentFail(t) ==
    [t EXCEPT !.status = "failed",
              !.error = <<"No agent registered for type", t.agent_type>>]

\* execute_task up to the first await of agent.execute.
MarkRunning(t) ==
    [t EXCEPT !.status = "running", !.started_at = "set",
              !.assigned_agent = t.agent_type]

ExecuteTaskBegin(k) ==
    /\ MayStart(k)
    /\ IF ~HasAgent(subtasks[k])
       THEN /\ subtasks' = [subtasks EXCEPT ![k] = NoAgentFail(@)]
            /\ epc' = [epc EXCEPT ![k] = "returned"]
            /\ UNCHANGED invocations
       ELSE /\ subtasks' = [subtasks EXCEPT ![k] = MarkRunning(@)]
            /\ IF RetryLoopContinues(MarkRunning(subtasks[k]))
               THEN /\ epc' = [epc EXCEPT ![k] = "agent"]
                    /\ invocations' = [invocations EXCEPT ![k] = @ + 1]
               ELSE /\ epc' = [epc EXCEPT ![k] = "returned"]
                    /\ UNCHANGED invocations
    /\ UNCHANGED <<setup, stored, finished, agents,
                   pc, iteration, ready_tasks, batches,
                   stalled, execution_history, returned>>

\* A success branch that clears the retry counter.
CompleteResetsRetries(t) ==
    [t EXCEPT !.status = "completed", !.result = "output",
              !.completed_at = "set", !.retry_count = 0]

\* A success branch that leaves the error of an earlier attempt in place.
CompleteKeepsLastError(t) ==
    [t EXCEPT !.status = "completed", !.result = "output",
              !.completed_at = "set",
              !.error = IF t.retry_count > 0
                        THEN <<"Failed after retries", t.max_retries>>
                        ELSE << >>]

\* agent.execute returned: the success branch.
Complete(t) ==
    [t EXCEPT !.status = "completed", !.result = "output",
              !.completed_at = "set"]

\* A worker whose result is only taken while no subtask is in its backoff.
WorkerReturnsWhenNoneSleeps(k) ==
    /\ pc = "gather"
    /\ epc[k] = "agent"
    /\ \A j \in 1..Len(subtasks) : epc[j] # "sleep"
    /\ subtasks' = [subtasks EXCEPT ![k] = Complete(@)]
    /\ epc' = [epc EXCEPT ![k] = "returned"]
    /\ finished' = Append(finished, k)
    /\ UNCHANGED <<setup, stored, agents, pc, iteration, ready_tasks,
                   invocations, batches, stalled, execution_history, returned>>

\* The success branch of execute_task but for its write to the sink.
WorkerReturnsControl(k) ==
    /\ pc = "gather"
    /\ epc[k] = "agent"
    /\ subtasks' = [subtasks EXCEPT ![k] = Complete(@)]
    /\ epc' = [epc EXCEPT ![k] = "returned"]
    /\ finished' = Append(finished, k)
    /\ UNCHANGED <<setup, agents, pc, iteration, ready_tasks, invocations,
                   batches, stalled, execution_history, returned>>

\* A success branch that counts the write to the sink as an attempt.
WorkerReturnsCountsSinkWrite(k) ==
    /\ pc = "gather"
    /\ epc[k] = "agent"
    /\ subtasks' = [subtasks EXCEPT ![k] =
           [Complete(@) EXCEPT !.retry_count =
               IF memory # "None" THEN @ + 1 ELSE @]]
    /\ epc' = [epc EXCEPT ![k] = "returned"]
    /\ finished' = Append(finished, k)
    /\ Store(<<SinkEntry("task_result", "None", subtasks[k].task_id)>>)
    /\ UNCHANGED <<setup, agents, pc, iteration, ready_tasks, invocations,
                   batches, stalled, execution_history, returned>>

\* The success branch of execute_task: completed, the result set and
\* stored in the sink, return.
WorkerReturns(k) ==
    /\ WorkerReturnsControl(k)
    /\ Store(<<SinkEntry("task_result", "None", subtasks[k].task_id)>>)

\* What a call of agent.execute may do.
MayRaise(t) == agents[t.agent_type] # "MockSmartAgent"

\* A retry that puts the subtask back to pending while it waits.
AfterFailureRequeues(t) ==
    LET u == [t EXCEPT !.retry_count = @ + 1]
    IN  IF u.retry_count > u.max_retries
        THEN [u EXCEPT !.status = "failed",
                       !.error = <<"Failed after retries", u.max_retries>>,
                       !.completed_at = "set"]
        ELSE [u EXCEPT !.status = "pending"]

\* agent.execute raised: the except branch.
AfterFailure(t) ==
    LET u == [t EXCEPT !.retry_count = @ + 1]
    IN  IF RetriesExhausted(u)
        THEN [u EXCEPT !.status = "failed",
                       !.error = <<"Failed after retries", u.max_retries>>,
                       !.completed_at = "set"]
        ELSE u

\* An execute_task without the except clause: the worker's exception goes
\* through asyncio.gather and out of coordinate.
WorkerRaisesUncaught(k) ==
    /\ pc = "gather"
    /\ epc[k] = "agent"
    /\ MayRaise(subtasks[k])
    /\ epc' = [epc EXCEPT ![k] = "returned"]
    /\ pc' = "raised"
    /\ UNCHANGED <<setup, stored, finished, agents,
                   subtasks, iteration, ready_tasks,
                   invocations, batches, stalled, execution_history, returned>>

\* A retry counter kept per batch instead of per subtask: a failed attempt
\* counts for every running subtask.
WorkerRaisesCountsForAll(k) ==
    LET u == AfterFailure(subtasks[k])
    IN  /\ pc = "gather"
        /\ epc[k] = "agent"
        /\ MayRaise(subtasks[k])
        /\ subtasks' = [j \in 1..Len(subtasks) |->
                          IF j = k THEN u
                          ELSE IF subtasks[j].status = "running"
                               THEN [subtasks[j] EXCEPT !.retry_count = @ + 1]
                               ELSE subtasks[j]]
        /\ epc' = [epc EXCEPT ![k] =
                     IF RetriesExhausted(u)
                     THEN (IF RetryLoopContinues(u) THEN "agent" ELSE "returned")
                     ELSE "sleep"]
        /\ invocations' = [invocations EXCEPT ![k] =
                     IF RetriesExhausted(u) /\ RetryLoopContinues(u)
                     THEN @ + 1 ELSE @]
        /\ UNCHANGED <<setup, stored, finished, agents,
                       pc, iteration, ready_tasks,
                       batches, stalled, execution_history, returned>>

WorkerRaises(k) ==
    LET u == AfterFailure(subtasks[k])
    IN  /\ pc = "gather"
        /\ epc[k] = "agent"
        /\ MayRaise(subtasks[k])
        /\ subtasks' = [subtasks EXCEPT ![k] = u]
        /\ epc' = [epc EXCEPT ![k] =
                     IF RetriesExhausted(u)
                     THEN (IF RetryLoopContinues(u) THEN "agent" ELSE "returned")
                     ELSE "sleep"]
        /\ invocations' = [invocations EXCEPT ![k] =
                     IF RetriesExhausted(u) /\ RetryLoopContinues(u)
                     THEN @ + 1 ELSE @]
        /\ UNCHANGED <<setup, stored, finished, agents,
                       pc, iteration, ready_tasks,
                       batches, stalled, execution_history, returned>>

\* asyncio.sleep(1) is over: back to the top of the retry loop.
BackoffOver(k) ==
    /\ pc = "gather"
    /\ epc[k] = "sleep"
    /\ IF RetryLoopContinues(subtasks[k])
       THEN /\ epc' = [epc EXCEPT ![k] = "agent"]
            /\ invocations' = [invocations EXCEPT ![k] = @ + 1]
       ELSE /\ epc' = [epc EXCEPT ![k] = "returned"]
            /\ UNCHANGED invocations
    /\ UNCHANGED <<setup, stored, finished, agents,
                   subtasks, pc, iteration, ready_tasks,
                   batches, stalled, execution_history, returned>>

----------------------------------------------------------------------------
(* The specifications *)

RunStep ==
    \/ Dispatch
    \/ Stall
    \/ LoopExit
    \/ GatherDone
    \/ \E k \in 1..Len(subtasks) : ExecuteTaskBegin(k)
    \/ \E k \in 1..Len(subtasks) : WorkerReturns(k)
    \/ \E k \in 1..Len(subtasks) : WorkerRaises(k)
    \/ \E k \in 1..Len(subtasks) : BackoffOver(k)

\* Runs whose subtask list is one the LLM decomposer returned.
Next ==
    \/ \E type \in AgentTypes : RegisterAgent(type, Workers[type])
    \/ (pc = "idle" /\ \E reply \in Replies(SubtaskLists) :
            reply.kind = "subtasks" /\ CoordinateTask(PlainTask, reply))
    \/ RunStep

Spec == Init /\ [][Next]_vars

\* The event loop runs every coroutine that can run, and every call of a
\* worker and every backoff sleep ends.
FairSpec == Spec /\ WF_vars(RunStep)

\* The workers of the research / analysis / writing pipeline the keyword
\* decomposition is written for.
Specialists ==
    [research |-> "Agent", analysis |-> "MockSmartAgent",
     writing |-> "MockSmartAgent"]

\* The lists the LLM returns in the runs that explore the decomposition.
ShortLists ==
    {<< >>} \cup { <<NewTask(1, type, {})>> : type \in {"research", "general"} }

\* An orchestrator constructed with or without an LLM decomposer.
DecomposeInit ==
    /\ Constructed
    /\ decomposer \in {"None", "LLMTaskDecomposer"}
    /\ memory = "None"

\* Runs over every task text, registry and outcome of the decomposition.
DecomposeNext ==
    \/ \E type \in DOMAIN Specialists : RegisterAgent(type, Specialists[type])
    \/ (pc = "idle" /\ \E task \in Texts, reply \in Replies(ShortLists) :
            CoordinateTask(task, reply))
    \/ RunStep

DecomposeSpec == DecomposeInit /\ [][DecomposeNext]_vars

FairDecomposeSpec == DecomposeSpec /\ WF_vars(RunStep)

\* The lists of the runs that follow one another on one orchestrator: the
\* empty list and one subtask, of a registered type or not, free or waiting
\* for a prerequisite that names nothing.
HistoryLists ==
    {<< >>} \cup
    { <<NewTask(1, type, deps)>> :
        type \in TaskTypes, deps \in {{}, {UnknownId}} }

\* coordinate returned and is called again: the locals of the call that
\* returned are gone, the orchestrator keeps its registry, its sink and its
\* history.
NextCall ==
    /\ pc = "done"
    /\ calls < MaxRuns
    /\ pc' = "idle"
    /\ subtasks' = << >>
    /\ iteration' = 0
    /\ ready_tasks' = << >>
    /\ epc' = << >>
    /\ invocations' = << >>
    /\ batches' = << >>
    /\ stalled' = FALSE
    /\ returned' = << >>
    /\ finished' = << >>
    /\ complex_task' = {}
    /\ llm_outcome' = "None"
    /\ UNCHANGED <<agents, agent_keys, decomposer, memory, stored,
                   execution_history, calls>>

\* Several calls of coordinate, one after the other.
HistoryNext ==
    \/ \E type \in AgentTypes : RegisterAgent(type, Workers[type])
    \/ (pc = "idle" /\ \E reply \in Replies(HistoryLists) :
            reply.kind = "subtasks" /\ CoordinateTask(PlainTask, reply))
    \/ RunStep
    \/ NextCall

HistorySpec == Init /\ [][HistoryNext]_vars

\* The lists of the runs with and without a memory sink: the diamond and the
\* empty list.
MemoryLists == DiamondLists \cup {<< >>}

\* An orchestrator constructed with or without a memory sink, and with or
\* without an LLM decomposer.
MemoryInit ==
    /\ Constructed
    /\ decomposer \in {"None", "LLMTaskDecomposer"}
    /\ memory \in {"None", "HierarchicalMemory"}

\* Runs with and without a memory sink.
MemoryNext ==
    \/ \E type \in AgentTypes : RegisterAgent(type, Workers[type])
    \/ (pc = "idle" /\ \E reply \in Replies(MemoryLists) :
            reply.kind = "subtasks" /\ CoordinateTask(PlainTask, reply))
    \/ RunStep

MemorySpec == MemoryInit /\ [][MemoryNext]_vars

\* The orchestrator with every "if self.memory" block taken out.
ControlNext ==
    \/ \E type \in AgentTypes : RegisterAgentControl(type, Workers[type])
    \/ (pc = "idle" /\ \E reply \in Replies(MemoryLists) :
            reply.kind = "subtasks" /\ CoordinateTaskControl(PlainTask, reply))
    \/ Dispatch
    \/ StallControl
    \/ LoopExitControl
    \/ GatherDone
    \/ \E k \in 1..Len(subtasks) : ExecuteTaskBegin(k)
    \/ \E k \in 1..Len(subtasks) : WorkerReturnsControl(k)
    \/ \E k \in 1..Len(subtasks) : WorkerRaises(k)
    \/ \E k \in 1..Len(subtasks) : BackoffOver(k)

----------------------------------------------------------------------------
(* Vocabulary of the properties *)

Tasks == 1..Len(subtasks)

Status(k) == subtasks[k].status

\* The positions the prerequisites of subtask k resolve to (0: to nothing).
Prereqs(tasks, k) == { FindTask(tasks, d) : d \in tasks[k].dependencies }

\* Every prerequisite identifier names a subtask of the list.
Resolvable(tasks) == \A k \in 1..Len(tasks) : 0 \notin Prereqs(tasks, k)

\* The subtasks that can be ordered after all their prerequisites, found by
\* peeling off, round after round, those whose prerequisites are peeled.
RECURSIVE Peel(_, _)
Peel(tasks, peeled) ==
    LET more == { k \in (1..Len(tasks)) \ peeled :
                    Prereqs(tasks, k) \ {0} \subseteq peeled }
    IN  IF more = {} THEN peeled ELSE Peel(tasks, peeled \cup more)

Acyclic(tasks) == Peel(tasks, {}) = 1..Len(tasks)

\* The subtasks k depends on, directly or through other subtasks.
RECURSIVE Upstream(_, _)
Upstream(tasks, found) ==
    LET more == (UNION { Prereqs(tasks, j) : j \in found } \ {0}) \ found
    IN  IF more = {} THEN found ELSE Upstream(tasks, found \cup more)

Ancestors(tasks, k) == Upstream(tasks, Prereqs(tasks, k) \ {0})

AllCompleted(tasks) == \A k \in 1..Len(tasks) : tasks[k].status = "completed"

----------------------------------------------------------------------------
(* C1 *)

\* C1 as stated: for an acyclic, fully resolvable subtask list the run ends
\* with every subtask completed or failed, and success exactly when all are
\* completed.
C1_AllTerminalAtEnd ==
    (pc = "done" /\ Acyclic(subtasks) /\ Resolvable(subtasks)) =>
        /\ \A k \in Tasks : Status(k) \in {"completed", "failed"}
        /\ returned[1].success <=> AllCompleted(subtasks)

\* How a run over an acyclic, fully resolvable list ends: no subtask is
\* running, a subtask is left pending only below a failed subtask or when
\* the loop stopped at the iteration cap, and success is true exactly when
\* all subtasks are completed.
C1_Final ==
    /\ pc = "done"
    /\ Len(returned) = 1
    /\ \A k \in Tasks :
          \/ Status(k) \in {"completed", "failed"}
          \/ /\ Status(k) = "pending"
             /\ \/ \E j \in Ancestors(subtasks, k) : Status(j) = "failed"
                \/ iteration = max_iterations
    /\ returned[1].success <=> AllCompleted(subtasks)

\* C1 (amended): every run over an acyclic, fully resolvable subtask list
\* terminates, whatever the workers do, in a state where no subtask is
\* running, only subtasks below a failed one (or cut off by the iteration
\* cap) are pending, and success holds exactly when all are completed.
C1_TerminatesTerminalOrBlocked ==
    (pc = "loop" /\ Acyclic(subtasks) /\ Resolvable(subtasks)) ~> C1_Final

\* An acyclic, resolvable chain ran: its head failed after its retries and
\* the run ended with the subtask below it still pending.
C1_Witness ==
    /\ pc = "done"
    /\ Len(subtasks) = 2
    /\ Acyclic(subtasks) /\ Resolvable(subtasks)
    /\ Status(1) = "failed" /\ subtasks[1].retry_count > 0
    /\ subtasks[2].dependencies = {1}
    /\ Status(2) = "pending"
    /\ ~returned[1].success

----------------------------------------------------------------------------
(* C2 *)

\* C2: a subtask that has been handed to execute_task (it is in the batch
\* under way, or it has left status pending) has every prerequisite
\* identifier naming a subtask of the list whose status is completed.
C2_DispatchedOnlyWithCompletedPrereqs ==
    \A k \in Tasks :
        (Status(k) # "pending" \/ epc[k] # "none") =>
            \A d \in subtasks[k].dependencies :
                \E j \in Tasks : /\ subtasks[j].task_id = d
                                 /\ Status(j) = "completed"

\* A subtask with prerequisites is running.
C2_Witness ==
    \E k \in Tasks : /\ subtasks[k].dependencies # {}
                     /\ Status(k) = "running"

----------------------------------------------------------------------------
(* C3 *)

\* Subtask k lists a prerequisite identifier that no subtask carries.
HasUnknownPrereq(k) == 0 \in Prereqs(subtasks, k)

Orphans == { k \in Tasks : HasUnknownPrereq(k) }

\* C3 as stated: a run with a subtask whose prerequisite is unknown ends by
\* stall detection (the stall branch of the loop ran), within the iteration
\* cap, with that subtask never batched and pending in the result.
C3_EndsByStallDetection ==
    (pc = "done" /\ Orphans # {}) =>
        /\ stalled
        /\ iteration <= max_iterations
        /\ \A k \in Orphans :
              /\ returned[1].subtasks[k].status = "pending"
              /\ \A b \in 1..Len(batches) : k \notin Range(batches[b])

\* The end of a run that holds a subtask with an unknown prerequisite.
C3_Final ==
    /\ pc = "done"
    /\ Len(returned) = 1
    /\ stalled \/ iteration = max_iterations
    /\ iteration <= max_iterations
    /\ \A k \in Orphans : returned[1].subtasks[k].status = "pending"

\* C3 (amended): a subtask with an unknown prerequisite is in no ready set
\* and stays pending; the run still terminates, by stall detection or by
\* reaching the iteration cap, never beyond the cap, and the subtask is
\* pending in the returned result.
C3_UnknownPrereqNeverReady ==
    /\ [](\A k \in Orphans :
            /\ Status(k) = "pending"
            /\ k \notin Range(ready_tasks)
            /\ \A b \in 1..Len(batches) : k \notin Range(batches[b]))
    /\ ((pc = "loop" /\ Orphans # {}) ~> C3_Final)

\* A run ended by stall detection after a batch was run, with the subtask
\* of unknown prerequisite pending next to a completed one.
C3_Witness ==
    /\ pc = "done"
    /\ stalled
    /\ Len(batches) > 0
    /\ \E k \in Orphans : returned[1].subtasks[k].status = "pending"
    /\ \E j \in Tasks : Status(j) = "completed"

----------------------------------------------------------------------------
(* C4 *)

\* The status of subtask k before and after a step.
StatusStep(k) == <<subtasks[k].status, subtasks'[k].status>>

SameList == Len(subtasks') = Len(subtasks)

\* C4 as stated: the only status changes are pending to running, running
\* to completed and running to failed.
C4_OnlyThreeTransitions ==
    [][SameList =>
         \A k \in Tasks :
            \/ subtasks'[k].status = subtasks[k].status
            \/ StatusStep(k) \in {<<"pending", "running">>,
                                  <<"running", "completed">>,
                                  <<"running", "failed">>}]_vars

\* C4 (amended): the only status changes are pending to running, running
\* to completed, running to failed, and pending to failed for a subtask
\* whose worker type has no registered worker; a dispatched subtask never
\* returns to pending and a completed or failed one never changes.
C4_TransitionsWithNoWorkerFailure ==
    [][SameList =>
         \A k \in Tasks :
            \/ subtasks'[k].status = subtasks[k].status
            \/ StatusStep(k) \in {<<"pending", "running">>,
                                  <<"running", "completed">>,
                                  <<"running", "failed">>}
            \/ /\ StatusStep(k) = <<"pending", "failed">>
               /\ subtasks[k].agent_type \notin DOMAIN agents]_vars

\* One subtask failed without ever running while another, retried,
\* completed.
C4_Witness ==
    /\ \E k \in Tasks : Status(k) = "failed" /\ subtasks[k].started_at = "None"
    /\ \E k \in Tasks : Status(k) = "completed" /\ subtasks[k].retry_count > 0

----------------------------------------------------------------------------
(* C5 *)

\* C5: for every subtask list (cyclic and unresolvable ones included) and
\* every pattern of worker failures, coordinate terminates and returns a
\* result; no exception leaves it; and whenever a batch is over, every
\* subtask of the batch has reached completed or failed, whatever happened
\* to the others.
C5_AlwaysReturnsAResult ==
    /\ ((pc = "loop") ~> (pc = "done" /\ Len(returned) = 1))
    /\ [](pc # "raised")
    /\ [](pc \in {"loop", "done"} =>
            \A k \in Range(ready_tasks) : Status(k) \in {"completed", "failed"})

\* A run returned a result after one subtask of its last batch exhausted
\* its retries and another of the same batch completed.
C5_Witness ==
    /\ pc = "done"
    /\ Len(returned) = 1
    /\ \E j, k \in Range(ready_tasks) :
          /\ Status(j) = "failed" /\ subtasks[j].retry_count > subtasks[j].max_retries
          /\ Status(k) = "completed"

----------------------------------------------------------------------------
(* C6 *)

\* C6: a subtask is completed only by a worker call that returned after k
\* calls that raised, with k <= max_retries, and its retry_count is then k
\* (every call but the last raised); a subtask with a registered worker is
\* never failed while fewer than max_retries + 1 calls were made, so k
\* failures followed by a success always end in completed; and a run whose
\* only subtask completed reports success.
C6_CompletedAfterKFailures ==
    /\ \A k \in Tasks :
          /\ Status(k) = "completed" =>
                /\ invocations[k] >= 1
                /\ subtasks[k].retry_count = invocations[k] - 1
                /\ subtasks[k].retry_count <= subtasks[k].max_retries
          /\ (Status(k) = "failed" /\ subtasks[k].agent_type \in DOMAIN agents) =>
                invocations[k] = subtasks[k].max_retries + 1
    /\ (pc = "done" /\ Len(subtasks) = 1 /\ Status(1) = "completed") =>
          /\ returned[1].success
          /\ returned[1].subtasks[1].retry_count = invocations[1] - 1

\* The only subtask of a run completed on its last allowed attempt, after
\* max_retries failures, and the run reported success.
C6_Witness ==
    /\ pc = "done"
    /\ Len(subtasks) = 1
    /\ Status(1) = "completed"
    /\ subtasks[1].retry_count = subtasks[1].max_retries
    /\ invocations[1] = subtasks[1].max_retries + 1
    /\ returned[1].success

----------------------------------------------------------------------------
(* C7 *)

\* C7: retry_count and the number of worker calls of a subtask never
\* exceed max_retries + 1; a subtask whose worker raised on every call is,
\* once execute_task returned, failed with retry_count = max_retries + 1
\* after exactly max_retries + 1 calls; and no subtask fails on exhausted
\* retries with any other count.
C7_ExactlyMaxRetriesPlusOneAttempts ==
    \A k \in Tasks :
        /\ subtasks[k].retry_count <= subtasks[k].max_retries + 1
        /\ invocations[k] <= subtasks[k].max_retries + 1
        /\ (epc[k] = "returned" /\ invocations[k] > 0
              /\ subtasks[k].retry_count = invocations[k]) =>
              /\ Status(k) = "failed"
              /\ invocations[k] = subtasks[k].max_retries + 1
        /\ (Status(k) = "failed" /\ subtasks[k].started_at = "set") =>
              /\ subtasks[k].retry_count = subtasks[k].max_retries + 1
              /\ invocations[k] = subtasks[k].max_retries + 1

\* A subtask failed after its worker raised on each of its three calls.
C7_Witness ==
    \E k \in Tasks :
        /\ Status(k) = "failed"
        /\ subtasks[k].max_retries = 2
        /\ subtasks[k].retry_count = 3
        /\ invocations[k] = 3

----------------------------------------------------------------------------
(* C8 *)

\* C8: the step that takes a subtask whose type has no registered worker
\* out of pending sets its status to failed and its error to the no-worker
\* text naming the type, and changes nothing else: execute_task has
\* returned, retry_count is still 0, no worker was called, no start time
\* was recorded, and every other subtask and coroutine is as it was.
C8_NoWorkerFailsAtOnce ==
    [][SameList =>
         \A k \in Tasks :
            (/\ subtasks[k].agent_type \notin DOMAIN agents
             /\ subtasks[k].status = "pending"
             /\ subtasks'[k] # subtasks[k]) =>
                /\ subtasks'[k] =
                      [subtasks[k] EXCEPT
                         !.status = "failed",
                         !.error = <<"No agent registered for type",
                                     subtasks[k].agent_type>>]
                /\ subtasks'[k].retry_count = 0
                /\ subtasks'[k].started_at = "None"
                /\ epc'[k] = "returned"
                /\ invocations' = invocations
                /\ \A j \in Tasks \ {k} :
                      subtasks'[j] = subtasks[j] /\ epc'[j] = epc[j]]_vars

\* A subtask failed for want of a worker, with no attempt made, while
\* another subtask of the same batch is running.
C8_Witness ==
    \E j, k \in Range(ready_tasks) :
        /\ pc = "gather"
        /\ Status(k) = "failed"
        /\ subtasks[k].error = <<"No agent registered for type",
                                 subtasks[k].agent_type>>
        /\ invocations[k] = 0
        /\ Status(j) = "running"

----------------------------------------------------------------------------
(* C9 *)

IsDiamond(tasks) ==
    /\ Len(tasks) = 4
    /\ \A k \in 1..4 : /\ tasks[k].task_id = k
                       /\ tasks[k].dependencies = DiamondDeps[k]

DiamondBatches == << <<1>>, <<2, 3>>, <<4>> >>

IsPrefix(s, t) ==
    /\ Len(s) <= Len(t)
    /\ \A p \in 1..Len(s) : s[p] = t[p]

\* C9: on the diamond A, B (needs A), C (needs A), D (needs B and C), as
\* long as no subtask has failed, the batches dispatched are, in this
\* order, <<A>>, <<B, C>>, <<D>>: B and C are handed to one gather
\* together, D has left pending only with B and C both completed, and the
\* run ends after exactly these three batches with all four completed.
C9_DiamondRunsInThreeBatches ==
    (IsDiamond(subtasks) /\ \A k \in Tasks : Status(k) # "failed") =>
        /\ IsPrefix(batches, DiamondBatches)
        /\ iteration = Len(batches)
        /\ (Status(4) # "pending" \/ epc[4] # "none") =>
              Status(2) = "completed" /\ Status(3) = "completed"
        /\ pc = "done" =>
              /\ batches = DiamondBatches
              /\ AllCompleted(subtasks)
              /\ returned[1].completed = 4
              /\ returned[1].success

\* The diamond ended with all four subtasks completed at the first attempt.
C9_Witness ==
    /\ pc = "done"
    /\ IsDiamond(subtasks)
    /\ batches = DiamondBatches
    /\ AllCompleted(subtasks)
    /\ \A k \in Tasks : subtasks[k].retry_count = 0

----------------------------------------------------------------------------
(* C10 *)

\* The subtasks that are pending and whose every prerequisite identifier is
\* carried by a completed subtask.
ReadySet(tasks) ==
    { k \in 1..Len(tasks) :
        /\ tasks[k].status = "pending"
        /\ \A d \in tasks[k].dependencies :
              \E j \in 1..Len(tasks) : /\ tasks[j].task_id = d
                                       /\ tasks[j].status = "completed" }

Increasing(s) == \A p, q \in 1..Len(s) : p < q => s[p] < s[q]

\* C10: the step of an iteration that dispatches hands to gather exactly
\* the ready set of that moment, none held back and no other, in the order
\* of the subtask list, and one execute_task is scheduled for each of them
\* and for no other subtask; only a subtask of the batch under way leaves
\* pending; and when the batch is over every subtask of it has been run.
C10_BatchIsExactlyTheReadySet ==
    /\ [][(pc = "loop" /\ pc' = "gather") =>
             /\ Range(ready_tasks') = ReadySet(subtasks)
             /\ Len(ready_tasks') = Cardinality(ReadySet(subtasks))
             /\ Increasing(ready_tasks')
             /\ batches' = Append(batches, ready_tasks')
             /\ \A k \in Tasks :
                   epc'[k] = "scheduled" <=> k \in ReadySet(subtasks)]_vars
    /\ [][SameList =>
             \A k \in Tasks :
                (subtasks[k].status = "pending" /\ subtasks'[k].status # "pending")
                    => (pc = "gather" /\ k \in Range(ready_tasks))]_vars
    /\ [](pc = "loop" => \A k \in Range(ready_tasks) : Status(k) # "pending")

\* A batch of two subtasks is under way while a third subtask, not ready,
\* is pending and not scheduled.
C10_Witness ==
    /\ pc = "gather"
    /\ Len(ready_tasks) = 2
    /\ \A k \in Range(ready_tasks) : epc[k] # "none"
    /\ \E k \in Tasks : /\ k \notin Range(ready_tasks)
                         /\ Status(k) = "pending"
                         /\ epc[k] = "none"

----------------------------------------------------------------------------
(* C11 *)

CompletedSet == { k \in Tasks : Status(k) = "completed" }

\* C11: the final output of a returned result has one entry for each
\* completed subtask and no other, and its entries stand in the order of
\* the subtask list, whatever the order in which the subtasks completed.
C11_OutputInListOrder ==
    pc = "done" =>
        LET out == returned[1].final_output
        IN  /\ Range(finished) = CompletedSet
            /\ Len(out) = Cardinality(CompletedSet)
            /\ \A p \in 1..Len(out) :
                  \E k \in CompletedSet : out[p] = OutputEntry(subtasks[k])
            /\ \A p, q \in 1..Len(out) :
                  p < q => FindTask(subtasks, out[p][1])
                             < FindTask(subtasks, out[q][1])

\* Two subtasks of one batch completed, the second of the list before the
\* first, and the output of the run lists the first before the second.
C11_Witness ==
    /\ pc = "done"
    /\ Len(subtasks) = 2
    /\ batches = << <<1, 2>> >>
    /\ finished = <<2, 1>>
    /\ returned[1].final_output =
          <<OutputEntry(subtasks[1]), OutputEntry(subtasks[2])>>

----------------------------------------------------------------------------
(* C12 *)

CountOf(st) == Cardinality({ k \in Tasks : Status(k) = st })

\* C12: in a returned result success is true exactly when completed
\* equals total_subtasks; completed and failed count the subtasks that are
\* completed and failed when the run ends, the listed subtasks are in their
\* final states, and completed, failed and the pending subtasks add up to
\* total_subtasks.
C12_SuccessIffAllCompleted ==
    pc = "done" =>
        LET r == returned[1]
        IN  /\ r.success <=> (r.completed = r.total_subtasks)
            /\ r.total_subtasks = Len(subtasks)
            /\ r.subtasks = subtasks
            /\ r.completed = CountOf("completed")
            /\ r.failed = CountOf("failed")
            /\ r.completed + r.failed + CountOf("pending") = r.total_subtasks
            /\ execution_history[Len(execution_history)] = r

\* A run ended with completed, failed and pending subtasks side by side.
C12_Witness ==
    /\ pc = "done"
    /\ returned[1].completed > 0
    /\ returned[1].failed > 0
    /\ CountOf("pending") > 0
    /\ ~returned[1].success

----------------------------------------------------------------------------
(* C13 *)

\* The lower-cased text holds one of the words.
HasMarker(task, words) == \E w \in task : Lower(w) \in words

\* The worker types the markers of a text ask for, in the order the
\* markers are scanned.
Blocks(task) ==
    (IF HasMarker(task, {"research", "find"}) THEN <<"research">> ELSE << >>)
    \o (IF HasMarker(task, {"analyze"}) THEN <<"analysis">> ELSE << >>)
    \o (IF HasMarker(task, {"write", "report"}) THEN <<"writing">> ELSE << >>)

\* The run's subtask list came from the keyword fallback.
FromKeywordFallback ==
    /\ pc \notin {"idle", "raised"}
    /\ llm_outcome \in {"not_called", "wrong_shape"}

\* C13: the list the keyword fallback returns is fixed by the markers the
\* text holds and the registered types: one subtask per marker group found,
\* in the order research/find, analyze, write/report (one subtask when none
\* is found), numbered 1, 2, ... in that order, the first without
\* prerequisite and each later one with the one before it as its only
\* prerequisite, each of the type its marker asks for when that type is
\* registered and of the first registered type otherwise.  With "research"
\* and "report", no "analyze", and the types research and writing, it is
\* task-1 (research, no prerequisite), task-2 (writing, needs task-1).
C13_FallbackIsAChainOfMarkers ==
    FromKeywordFallback =>
        LET blocks == Blocks(complex_task)
        IN  /\ Len(subtasks) = (IF blocks = << >> THEN 1 ELSE Len(blocks))
            /\ \A k \in Tasks :
                  /\ subtasks[k].task_id = k
                  /\ subtasks[k].dependencies = (IF k = 1 THEN {} ELSE {k - 1})
                  /\ subtasks[k].agent_type =
                        (IF blocks # << >> /\ blocks[k] \in Range(agent_keys)
                         THEN blocks[k]
                         ELSE IF agent_keys # << >> THEN agent_keys[1]
                                                    ELSE "general")
            /\ (/\ blocks = <<"research", "writing">>
                /\ Range(agent_keys) = {"research", "writing"}) =>
                  /\ Len(subtasks) = 2
                  /\ subtasks[1].task_id = 1
                  /\ subtasks[1].agent_type = "research"
                  /\ subtasks[1].dependencies = {}
                  /\ subtasks[2].task_id = 2
                  /\ subtasks[2].agent_type = "writing"
                  /\ subtasks[2].dependencies = {1}

\* The keyword fallback has just decomposed a text with "Research",
\* "analyze" and "Report" for the types research and writing: three
\* subtasks, the second of the first registered type.
C13_Witness ==
    /\ pc = "loop"
    /\ iteration = 0
    /\ llm_outcome = "not_called"
    /\ complex_task = {"Research", "analyze", "Report"}
    /\ agent_keys = <<"writing", "research">>
    /\ Len(subtasks) = 3
    /\ subtasks[2].agent_type = "writing"
    /\ subtasks[3].dependencies = {2}

----------------------------------------------------------------------------
(* C14 *)

\* What of a subtask list no step of a run changes.
Shape(tasks) ==
    [k \in 1..Len(tasks) |->
        <<tasks[k].task_id, tasks[k].agent_type, tasks[k].dependencies>>]

\* The call of the LLM decomposer failed or its reply was malformed.
LLMFailed == llm_outcome \in {"call_failed", "not_json", "wrong_shape"}

\* C14: whenever the LLM decomposition failed (the call failed, or the
\* reply was no JSON or JSON of the wrong shape) and the keyword fallback
\* has a list for the text and the registered types, that list is the one
\* the run executes.
C14_FailureFallsBackToKeywords ==
    (/\ pc \notin {"idle", "raised"}
     /\ LLMFailed
     /\ ~fallback_decompose(complex_task, agent_keys).raised) =>
        Shape(subtasks) =
            Shape(fallback_decompose(complex_task, agent_keys).tasks)

----------------------------------------------------------------------------
(* C15 *)

\* C15: the subtask list a run executes is never empty, and no returned
\* result has total_subtasks = 0.
C15_ExecutedListNonEmpty ==
    /\ pc \notin {"idle", "raised"} => Len(subtasks) > 0
    /\ pc = "done" => returned[1].total_subtasks > 0

----------------------------------------------------------------------------
(* C16 *)

\* C16: with no worker registered, a run whose list comes from the keyword
\* fallback does not raise, its subtasks carry the sentinel type, every
\* subtask that left pending failed with the no-worker error, and the
\* result it returns is no success.
C16_NoWorkerNeverRaises ==
    (/\ agent_keys = << >>
     /\ llm_outcome \in {"not_called", "wrong_shape"}) =>
        /\ pc # "raised"
        /\ \A k \in Tasks :
              /\ subtasks[k].agent_type = "general"
              /\ Status(k) \in {"pending", "failed"}
              /\ Status(k) = "failed" =>
                    subtasks[k].error =
                        <<"No agent registered for type", "general">>
        /\ pc = "done" => ~returned[1].success

----------------------------------------------------------------------------
(* C17 *)

\* C17: the loop never makes more than max_iterations passes and never
\* dispatches more than max_iterations batches; when it stands at the cap
\* with subtasks still pending, its next step is the return of a result,
\* with no further batch, no exception, success false and those subtasks
\* still pending in it.
C17_StopsAtTheCap ==
    /\ [](/\ iteration <= max_iterations
          /\ Len(batches) <= max_iterations
          /\ pc # "raised")
    /\ [][(pc = "loop" /\ iteration = max_iterations /\ AnyPending(subtasks)) =>
             /\ pc' = "done"
             /\ batches' = batches
             /\ subtasks' = subtasks
             /\ Len(returned') = 1
             /\ ~returned'[1].success
             /\ \A k \in Tasks :
                   Status(k) = "pending" =>
                       returned'[1].subtasks[k].status = "pending"]_vars

\* A chain of max_iterations + 1 subtasks ended after max_iterations
\* batches, all but the last subtask completed, the last one pending.
C17_Witness ==
    /\ pc = "done"
    /\ Len(subtasks) = max_iterations + 1
    /\ iteration = max_iterations
    /\ Len(batches) = max_iterations
    /\ \A k \in 1..max_iterations : Status(k) = "completed"
    /\ returned[1].subtasks[max_iterations + 1].status = "pending"
    /\ ~stalled
    /\ ~returned[1].success

----------------------------------------------------------------------------
(* C18 *)

\* C18: when a pass of the loop finds no subtask ready while some are
\* pending, its step is the return of a result: nothing is dispatched, no
\* subtask changes, the result has success false and lists the stuck
\* subtasks as pending; a run that stalled never dispatches again.
C18_StallStopsTheRun ==
    /\ [][(pc = "loop" /\ LoopContinues /\ ReadySet(subtasks) = {}) =>
             /\ pc' = "done"
             /\ stalled'
             /\ batches' = batches
             /\ subtasks' = subtasks
             /\ Len(returned') = 1
             /\ ~returned'[1].success
             /\ \A k \in Tasks :
                   Status(k) = "pending" =>
                       returned'[1].subtasks[k].status = "pending"]_vars
    /\ [][stalled => (pc' = "done" /\ batches' = batches
                       /\ subtasks' = subtasks)]_vars
    /\ [](pc # "raised")

\* A run over two subtasks that wait for each other ended by the stall
\* branch, with no batch and both pending.
C18_Witness ==
    /\ pc = "done"
    /\ stalled
    /\ Len(subtasks) = 2
    /\ subtasks[1].dependencies = {2}
    /\ subtasks[2].dependencies = {1}
    /\ batches = << >>
    /\ \A k \in Tasks : returned[1].subtasks[k].status = "pending"
    /\ ~returned[1].success

----------------------------------------------------------------------------
(* C19 *)

\* The batches subtask k was dispatched in.
BatchesOf(k) == { b \in 1..Len(batches) : k \in Range(batches[b]) }

\* C19: when coordinate is at the top of its loop or has returned, no
\* subtask is running and no execute_task is under way; a running subtask
\* belongs to the batch under way, the last one dispatched, so two running
\* subtasks are always of the same batch.
C19_BarrierBetweenBatches ==
    /\ pc \in {"loop", "done"} =>
          \A k \in Tasks : Status(k) # "running" /\ epc[k] \in {"none", "returned"}
    /\ \A k \in Tasks :
          Status(k) = "running" =>
              /\ pc = "gather"
              /\ k \in Range(ready_tasks)
              /\ BatchesOf(k) = {Len(batches)}
    /\ \A j, k \in Tasks :
          (Status(j) = "running" /\ Status(k) = "running") =>
              BatchesOf(j) = BatchesOf(k)

\* In the diamond, B has completed while C, of the same batch, is in its
\* backoff, and D has not been dispatched.
C19_Witness ==
    /\ pc = "gather"
    /\ IsDiamond(subtasks)
    /\ ready_tasks = <<2, 3>>
    /\ Status(2) = "completed"
    /\ epc[3] = "sleep"
    /\ Status(4) = "pending"
    /\ epc[4] = "none"

----------------------------------------------------------------------------
(* C20 *)

\* C20: while a batch is under way, whatever the other subtasks of the
\* batch are doing (in their backoff or waiting for their worker), a
\* subtask whose worker call is outstanding can take its result or its
\* failure, a subtask in its backoff can go on to its next attempt, and a
\* subtask whose turn it is to start can start.
C20_BackoffBlocksNoOther ==
    pc = "gather" =>
        \A k \in Range(ready_tasks) :
            /\ epc[k] = "agent" => ENABLED WorkerReturns(k)
            /\ (epc[k] = "agent" /\ MayRaise(subtasks[k])) =>
                  ENABLED WorkerRaises(k)
            /\ epc[k] = "sleep" => ENABLED BackoffOver(k)
            /\ MayStart(k) => ENABLED ExecuteTaskBegin(k)

\* One subtask of a batch is in its backoff while another of the same
\* batch, which failed once itself, has completed.
C20_Witness ==
    /\ pc = "gather"
    /\ \E j, k \in Range(ready_tasks) :
          /\ epc[j] = "sleep"
          /\ Status(j) = "running"
          /\ Status(k) = "completed"
          /\ subtasks[k].retry_count = 1

----------------------------------------------------------------------------
(* C21 *)

\* The subtasks whose record a step changes.
Changed == { k \in Tasks : subtasks'[k] # subtasks[k] }

\* C21: a step taken while a batch is under way changes the record of at
\* most one subtask, the one whose execute_task took the step, a subtask
\* of the batch; the records of all other subtasks, the worker registry
\* and the list itself are as they were.
C21_OnlyOwnRecordChanges ==
    [][(pc = "gather" /\ SameList) =>
          /\ Cardinality(Changed) <= 1
          /\ \A k \in Changed :
                /\ k \in Range(ready_tasks)
                /\ epc[k] \in {"scheduled", "agent"}
                /\ \A j \in Tasks \ {k} :
                      /\ subtasks'[j] = subtasks[j]
                      /\ epc'[j] = epc[j]
                      /\ invocations'[j] = invocations[j]
          /\ agents' = agents
          /\ agent_keys' = agent_keys
          /\ \A k \in Tasks :
                /\ subtasks'[k].task_id = subtasks[k].task_id
                /\ subtasks'[k].agent_type = subtasks[k].agent_type
                /\ subtasks'[k].dependencies = subtasks[k].dependencies]_vars

\* Two subtasks of a batch are running, one after two failed attempts, the
\* other with none.
C21_Witness ==
    /\ pc = "gather"
    /\ \E j, k \in Range(ready_tasks) :
          /\ Status(j) = "running" /\ subtasks[j].retry_count = 2
          /\ Status(k) = "running" /\ subtasks[k].retry_count = 0
          /\ epc[k] = "agent"

----------------------------------------------------------------------------
(* C22 *)

----------------------------------------------------------------------------
(* C23 *)

\* Everything but the sink: what a run decides, does and returns.
control == <<agents, subtasks, pc, iteration, ready_tasks, epc, invocations,
             batches, stalled, execution_history, returned, agent_keys,
             decomposer, complex_task, llm_outcome, finished, calls>>

\* The writes the sink holds, told from what the run did: one for each
\* registration, two at the start of a run that got its subtask list, one
\* for each completed subtask in the order of completion, and the fact of a
\* run that returned success.
SinkWrites ==
    [i \in 1..Len(agent_keys) |->
        SinkEntry("agent_registered", agent_keys[i], 0)]
    \o (IF pc \in {"idle", "raised"} THEN << >>
        ELSE <<SinkEntry("orchestration_task", "None", 0),
               SinkEntry("subtasks", "None", 0)>>)
    \o [i \in 1..Len(finished) |->
        SinkEntry("task_result", "None", subtasks[finished[i]].task_id)]
    \o (IF pc = "done" /\ returned[1].success
        THEN <<SinkEntry("fact", "None", 0)>> ELSE << >>)

Facts == { i \in 1..Len(stored) : stored[i].key = "fact" }

\* Whatever the orchestrator could do without its sink writes it can do
\* with them.
SinkBlocksNothing ==
    /\ \A type \in AgentTypes :
          ENABLED RegisterAgentControl(type, Workers[type])
              => ENABLED RegisterAgent(type, Workers[type])
    /\ pc = "idle" =>
          \A reply \in Replies({<< >>, Chain(1, "calculator")}) :
              ENABLED CoordinateTaskControl(PlainTask, reply)
                  => ENABLED CoordinateTask(PlainTask, reply)
    /\ ENABLED StallControl => ENABLED Stall
    /\ ENABLED LoopExitControl => ENABLED LoopExit
    /\ \A k \in Tasks : ENABLED WorkerReturnsControl(k)
                            => ENABLED WorkerReturns(k)

----------------------------------------------------------------------------
(* C24 *)

\* A call of coordinate is under way.
InCall == pc \in {"loop", "gather"}

\* The step that ends a call appends the result the call returns; no other
\* step touches the history.
HistoryStep ==
    IF InCall /\ pc' = "done"
    THEN execution_history' = Append(execution_history, returned'[1])
    ELSE execution_history' = execution_history

\* C24: each coordinate call appends exactly one result to the history, at
\* its end, whether the run succeeded, failed or stalled.  The history
\* holds one result for each call that returned; a step changes the
\* history only by ending a call, and then by appending the result that
\* call returns, so the results stand in the order the calls finished and
\* no later run changes an earlier entry.
C24_OneResultPerCallInOrder ==
    /\ [](Len(execution_history) = calls - (IF InCall THEN 1 ELSE 0))
    /\ [](pc = "done" =>
            execution_history[Len(execution_history)] = returned[1])
    /\ [][HistoryStep]_vars

\* Two calls returned: the first succeeded, the second stalled, and the
\* history holds the two results in that order.
C24_Witness ==
    /\ calls = 2
    /\ pc = "done"
    /\ Len(execution_history) = 2
    /\ execution_history[1].success
    /\ execution_history[1].completed = 1
    /\ ~execution_history[2].success
    /\ execution_history[2].failed = 0
    /\ stalled

----------------------------------------------------------------------------
(* C25 *)

RECURSIVE SumLen(_, _)
SumLen(s, b) == IF b > Len(s) THEN 0 ELSE Len(s[b]) + SumLen(s, b + 1)

\* C25: within a run no subtask is in two batches and no batch is empty,
\* so there are at most as many batches as subtasks; a subtask that has
\* left pending (a failed one included) is in no ready set again; between
\* two batches the pending subtasks are exactly those never dispatched, so
\* each batch lowers their number by its size; and a dispatching pass only
\* takes subtasks that are pending.
C25_DispatchedAtMostOnce ==
    /\ [](/\ \A k \in Tasks : Cardinality(BatchesOf(k)) <= 1
          /\ \A b \in 1..Len(batches) : batches[b] # << >>
          /\ Len(batches) <= Len(subtasks)
          /\ \A k \in Tasks :
                Status(k) # "pending" =>
                    k \notin Range(get_ready_tasks(subtasks))
          /\ pc \in {"loop", "done"} =>
                /\ \A k \in Tasks :
                      Status(k) = "pending" <=> BatchesOf(k) = {}
                /\ CountOf("pending") = Len(subtasks) - SumLen(batches, 1))
    /\ [][(pc = "loop" /\ pc' = "gather") =>
             /\ \A k \in Range(ready_tasks') :
                   Status(k) = "pending" /\ BatchesOf(k) = {}
             /\ Len(ready_tasks') > 0]_vars

\* The diamond ended after two batches and a third pass that found
\* nothing ready: B failed after its retries in the second batch and was
\* not run again, C completed, D was never dispatched.
C25_Witness ==
    /\ pc = "done"
    /\ IsDiamond(subtasks)
    /\ batches = << <<1>>, <<2, 3>> >>
    /\ iteration = 3
    /\ Status(2) = "failed"
    /\ invocations[2] = subtasks[2].max_retries + 1
    /\ Status(3) = "completed"
    /\ Status(4) = "pending"

=============================================================================
